---- MODULE Spec2Model ----
(***************************************************************************)
(* Model of the MCP chat orchestration in src/lib/mcp-client.ts:           *)
(* MCPClient.initialize / initializeTools (connector and catalog) and      *)
(* MCPClient.chat / executeToolCalls (conversation loop and output         *)
(* stream).  One action is the code that runs between two awaits (a        *)
(* JavaScript task runs to completion), so the interleavings of the model  *)
(* are exactly those the event loop can produce.                           *)
(*                                                                         *)
(* Text is a sequence of tokens (STRING): concatenation is \o.  A JSON     *)
(* value is a record [type, v] with v a token sequence.                    *)
(***************************************************************************)
EXTENDS Integers, Sequences, FiniteSets, TLC

VARIABLES
  cfg,              \* the configuration document mcp.json holds
  init,             \* the one initialize() call on the MCPClient instance
  clients,          \* MCPClient.clients: server names in insertion order
  connectedServers, \* MCPClient.connectedServers
  mcpToolMap,       \* MCPClient.mcpToolMap: tool name -> descriptor
  chats,            \* one record per chat() invocation (its ReadableStream)
  mcpClientInstance,\* the module-level singleton: 0 is null, else the instance
  initCalls,        \* history: MCPClient instances built and initialized
  requests          \* one record per POST request

reqVars == <<mcpClientInstance, initCalls, requests>>

vars == <<cfg, init, clients, connectedServers, mcpToolMap, chats, reqVars>>

(***************************************************************************)
(* Program constant and bounds of the model.                               *)
(***************************************************************************)
maxIterations == 10

MaxParts == 2     \* parts the backend streams in one turn
MaxCalls == 2     \* tool calls in one announced tool-call list
MaxQueue == 1     \* chunks the consumer may lag behind before the loop runs on
MaxServers == 3   \* entries of mcpServers

Invocations == {1, 2}

Undefined == "undefined"

(***************************************************************************)
(* JSON values and the two conversions the code applies to them.           *)
(***************************************************************************)
Obj(body) == [type |-> "object", v |-> body]
Str(chars) == [type |-> "string", v |-> chars]
Num(digits) == [type |-> "number", v |-> digits]
NullValue == [type |-> "null", v |-> <<"null">>]

Digits == {"0", "1", "5"}

RECURSIVE TrimLeft(_)
TrimLeft(chars) ==
  IF chars # <<>> /\ Head(chars) = " " THEN TrimLeft(Tail(chars)) ELSE chars

RECURSIVE TrimRight(_)
TrimRight(chars) ==
  IF chars # <<>> /\ chars[Len(chars)] = " "
  THEN TrimRight(SubSeq(chars, 1, Len(chars) - 1))
  ELSE chars

\* String.prototype.trim
Trim(chars) == TrimRight(TrimLeft(chars))

\* JSON.parse on the token alphabet of the model: an object literal is
\* "{" members "}", a number literal is one digit token; anything else is a
\* SyntaxError.
JSONParse(chars) ==
  LET n == Len(chars) IN
  IF n >= 2 /\ chars[1] = "{" /\ chars[n] = "}"
     /\ \A i \in 2..(n - 1) : chars[i] \notin {"{", "}", " "}
  THEN [ok |-> TRUE, val |-> Obj(SubSeq(chars, 2, n - 1))]
  ELSE IF n = 1 /\ chars[1] \in Digits
  THEN [ok |-> TRUE, val |-> Num(chars)]
  ELSE [ok |-> FALSE, val |-> Num(<<>>)]

\* JSON.stringify of a value
JSONStringify(val) ==
  IF val.type = "object" THEN <<"{">> \o val.v \o <<"}">>
  ELSE IF val.type = "string" THEN <<"\"">> \o val.v \o <<"\"">>
  ELSE val.v

\* JSON.stringify of one tool-call structure {function: {name, arguments}}
StringifyCall(toolCall) ==
  <<"{name:", toolCall.name, "arguments:">>
    \o JSONStringify(toolCall.arguments) \o <<"}">>

RECURSIVE StringifyCalls(_)
StringifyCalls(toolCalls) ==
  IF toolCalls = <<>> THEN <<>>
  ELSE StringifyCall(Head(toolCalls)) \o StringifyCalls(Tail(toolCalls))


(***************************************************************************)
(* The text blocks chat and executeToolCalls write to the output stream,   *)
(* and the messages they append to the conversation.                       *)
(***************************************************************************)
ToolCallInfo(toolCalls) ==
  <<"Tool Calls:">> \o StringifyCalls(toolCalls) \o <<"end">>

ToolResultInfo(functionName, result) ==
  <<"Tool Result", functionName>> \o JSONStringify(result) \o <<"end">>

ErrorPayload(functionName, errmsg) ==
  Obj(<<"error:Failed to execute tool", functionName, errmsg>>)

ToolErrorInfo(functionName, errmsg) ==
  <<"Tool Error", functionName>>
    \o JSONStringify(ErrorPayload(functionName, errmsg)) \o <<"end">>

ToolMessage(functionName, content) ==
  [role |-> "tool", name |-> functionName, content |-> content,
   tool_calls |-> <<>>]

\* let message: any = { content: "", tool_calls: [] }  (it has no role)
PendingMessage ==
  [role |-> Undefined, name |-> Undefined, content |-> <<>>, tool_calls |-> <<>>]

(***************************************************************************)
(* ReadableStreamDefaultController, as the Streams standard defines it:    *)
(* enqueue and close throw unless the stream is readable with no close     *)
(* requested; enqueue hands the chunk to a pending read, or else queues    *)
(* it; close lets the queue drain first; error discards the queue.  A      *)
(* pending read is settled by whichever of the three comes first.          *)
(***************************************************************************)
\* variant: enqueue and close never throw
CanCloseOrEnqueue_Always(s) == TRUE

CanCloseOrEnqueue(s) == s.strState = "readable" /\ ~s.closeRequested

ControllerEnqueue(s, chunk) ==
  IF s.consumer = "pending"
  THEN [s EXCEPT !.observed = Append(@, chunk), !.consumer = "idle",
                 !.enqueued = Append(@, chunk)]
  ELSE [s EXCEPT !.queue = Append(@, chunk), !.enqueued = Append(@, chunk)]

ControllerClose(s) ==
  IF s.queue = <<>>
  THEN [s EXCEPT !.strState = "closed",
                 !.consumer = IF @ = "pending" THEN "done" ELSE @]
  ELSE [s EXCEPT !.closeRequested = TRUE]

ControllerError(s) ==
  IF s.strState # "readable" THEN s
  ELSE [s EXCEPT !.queue = <<>>, !.strState = "errored",
                 !.consumer = IF @ = "pending" THEN "error" ELSE @]

(***************************************************************************)
(* MCPClient.chat: the pieces of start(controller) between awaits.         *)
(***************************************************************************)
\* variant: the conversation is the caller's array itself
SpreadMessages_Alias(s) ==
  [s EXCEPT !.currentMessages = s.messages, !.appendedAs = s.messages,
            !.aliased = TRUE]

\* let currentMessages = [...messages]: a new array with the same elements
SpreadMessages(s) ==
  [s EXCEPT !.currentMessages = s.messages, !.appendedAs = s.messages,
            !.aliased = FALSE]

\* currentMessages.push(m); the caller's array grows too if it is the same
\* array
Push(s, m) ==
  [s EXCEPT !.currentMessages = Append(@, m),
            !.appendedAs = Append(@, m),
            !.messages = IF s.aliased THEN Append(@, m) ELSE @]

\* catch (error) { controller.error(error) }
ChatCatch(s, cause) ==
  [ControllerError(s) EXCEPT !.pc = "aborted", !.abortCause = cause]

\* variant: the loop is left without closing the stream
ChatClose_NoClose(s) == [s EXCEPT !.pc = "done"]

\* controller.close() after the loop (it throws on a stream that cannot close)
ChatClose(s) ==
  IF CanCloseOrEnqueue(s) THEN [ControllerClose(s) EXCEPT !.pc = "done"]
  ELSE ChatCatch(s, "close")

\* variant: the loop test lets one iteration too many through
IterationStart_OffByOne(s) ==
  IF s.iterationCount <= maxIterations
  THEN [s EXCEPT !.iterationCount = @ + 1, !.modelCalls = @ + 1,
                 !.pc = "awaitModel"]
  ELSE ChatClose(s)

\* while (iterationCount < maxIterations) { iterationCount++; ollama.chat(...)
IterationStart(s) ==
  IF s.iterationCount < maxIterations
  THEN [s EXCEPT !.iterationCount = @ + 1, !.modelCalls = @ + 1,
                 !.pc = "awaitModel"]
  ELSE ChatClose(s)

(***************************************************************************)
(* MCPClient.executeToolCalls, from the call at index s.tcIdx on, up to    *)
(* the next await (client.callTool) or the return to the loop in chat.     *)
(***************************************************************************)
\* the argument decoding of lines 177-188
\* variant: whatever typeof calls "object" is accepted, null included
Decodable_TypeofObject(args) ==
  IF args.type = "string" THEN JSONParse(Trim(args.v)).ok
  ELSE args.type \in {"object", "null"}

\* lines 177-188: the argument value can be decoded
Decodable(args) ==
  IF args.type = "string" THEN JSONParse(Trim(args.v)).ok
  ELSE args.type = "object"

DecodeArgs(args) ==
  IF args.type = "string" THEN JSONParse(Trim(args.v)).val ELSE args

RECURSIVE ExecuteFrom(_, _, _)
RECURSIVE ToolFailed(_, _, _, _)

\* variant: the catch block rethrows instead of folding the failure in
ToolFailed_Rethrow(s, toolMap, conns, errmsg) == ChatCatch(s, "tool")

\* the catch block of lines 222-243, then on to the next call
ToolFailed(s, toolMap, conns, errmsg) ==
  LET functionName == s.message.tool_calls[s.tcIdx].name IN
  IF CanCloseOrEnqueue(s)
  THEN ExecuteFrom(
         [Push(ControllerEnqueue(s, ToolErrorInfo(functionName, errmsg)),
               ToolMessage(functionName,
                           JSONStringify(ErrorPayload(functionName, errmsg))))
            EXCEPT !.tcIdx = @ + 1],
         toolMap, conns)
  ELSE ChatCatch(s, "enqueue")

\* variant: the result is streamed but not appended to the conversation
ToolSucceeded_NoPush(s, toolMap, conns, result) ==
  LET functionName == s.message.tool_calls[s.tcIdx].name IN
  IF CanCloseOrEnqueue(s)
  THEN ExecuteFrom(
         [ControllerEnqueue(s, ToolResultInfo(functionName, result)) EXCEPT
            !.tcIdx = @ + 1],
         toolMap, conns)
  ELSE ToolFailed(s, toolMap, conns, "Invalid state")

\* variant: the tool message is put in front of the conversation
ToolSucceeded_Unshift(s, toolMap, conns, result) ==
  LET functionName == s.message.tool_calls[s.tcIdx].name IN
  IF CanCloseOrEnqueue(s)
  THEN ExecuteFrom(
         [ControllerEnqueue(s, ToolResultInfo(functionName, result)) EXCEPT
            !.currentMessages =
               <<ToolMessage(functionName, JSONStringify(result))>> \o @,
            !.appendedAs =
               <<ToolMessage(functionName, JSONStringify(result))>> \o @,
            !.msgIdx = @ + 1,
            !.tcIdx = @ + 1],
         toolMap, conns)
  ELSE ToolFailed(s, toolMap, conns, "Invalid state")

\* lines 211-221 after client.callTool resolved, then on to the next call
ToolSucceeded(s, toolMap, conns, result) ==
  LET functionName == s.message.tool_calls[s.tcIdx].name IN
  IF CanCloseOrEnqueue(s)
  THEN ExecuteFrom(
         [Push(ControllerEnqueue(s, ToolResultInfo(functionName, result)),
               ToolMessage(functionName, JSONStringify(result)))
            EXCEPT !.tcIdx = @ + 1],
         toolMap, conns)
  ELSE ToolFailed(s, toolMap, conns, "Invalid state")

\* variant: the calls are taken from the end of the list
ExecuteFrom_Reversed(s, toolMap, conns) ==
  IF s.tcIdx > Len(s.message.tool_calls) THEN IterationStart(s)
  ELSE
    LET functionCall ==
          s.message.tool_calls[Len(s.message.tool_calls) + 1 - s.tcIdx]
        functionName == functionCall.name
        args == functionCall.arguments
    IN
    IF ~Decodable(args) THEN ChatCatch(s, "decode")
    ELSE IF functionName \notin DOMAIN toolMap THEN ChatCatch(s, "unknown")
    ELSE IF \A i \in DOMAIN conns : conns[i] # toolMap[functionName].serverName
    THEN ToolFailed(s, toolMap, conns, "Client not found")
    ELSE [s EXCEPT
            !.pc = "awaitTool",
            !.parsedArgs = DecodeArgs(args),
            !.serverCalls =
               Append(@, [serverName |-> toolMap[functionName].serverName,
                          name |-> functionName,
                          arguments |-> DecodeArgs(args)])]

\* variant: every call goes to the first connection
ExecuteFrom_FirstClient(s, toolMap, conns) ==
  IF s.tcIdx > Len(s.message.tool_calls) THEN IterationStart(s)
  ELSE
    LET functionCall == s.message.tool_calls[s.tcIdx]
        functionName == functionCall.name
        args == functionCall.arguments
    IN
    IF ~Decodable(args) THEN ChatCatch(s, "decode")
    ELSE IF functionName \notin DOMAIN toolMap THEN ChatCatch(s, "unknown")
    ELSE IF conns = <<>>
    THEN ToolFailed(s, toolMap, conns, "Client not found")
    ELSE [s EXCEPT
            !.pc = "awaitTool",
            !.parsedArgs = DecodeArgs(args),
            !.serverCalls =
               Append(@, [serverName |-> conns[1],
                          name |-> functionName,
                          arguments |-> DecodeArgs(args)])]

\* lines 176-209: the next tool call of the list, up to client.callTool
ExecuteFrom(s, toolMap, conns) ==
  IF s.tcIdx > Len(s.message.tool_calls) THEN IterationStart(s)
  ELSE
    LET functionCall == s.message.tool_calls[s.tcIdx]
        functionName == functionCall.name
        args == functionCall.arguments
    IN
    IF ~Decodable(args) THEN ChatCatch(s, "decode")
    ELSE IF functionName \notin DOMAIN toolMap THEN ChatCatch(s, "unknown")
    ELSE IF \A i \in DOMAIN conns : conns[i] # toolMap[functionName].serverName
    THEN ToolFailed(s, toolMap, conns, "Client not found")
    ELSE [s EXCEPT
            !.pc = "awaitTool",
            !.parsedArgs = DecodeArgs(args),
            !.serverCalls =
               Append(@, [serverName |-> toolMap[functionName].serverName,
                          name |-> functionName,
                          arguments |-> DecodeArgs(args)])]

\* variant: the text of a part that announces tool calls is not forwarded
OnPart_ElseIf(s, part) ==
  IF part.has_tool_calls
  THEN [s EXCEPT !.message.tool_calls = part.tool_calls, !.nParts = @ + 1]
  ELSE IF part.content = <<>> THEN [s EXCEPT !.nParts = @ + 1]
  ELSE IF CanCloseOrEnqueue(s)
  THEN [ControllerEnqueue(s, part.content) EXCEPT
          !.message.content = @ \o part.content, !.nParts = @ + 1,
          !.texts = Append(@, part.content)]
  ELSE ChatCatch(s, "enqueue")

\* lines 296-303: one part of the streamed response
OnPart(s, part) ==
  LET t == IF part.has_tool_calls
           THEN [s EXCEPT !.message.tool_calls = part.tool_calls]
           ELSE s
  IN
  IF part.content = <<>> THEN [t EXCEPT !.nParts = @ + 1]
  ELSE IF CanCloseOrEnqueue(s)
  THEN [ControllerEnqueue(t, part.content) EXCEPT
          !.message.content = @ \o part.content, !.nParts = @ + 1,
          !.texts = Append(@, part.content)]
  ELSE ChatCatch(s, "enqueue")

\* variant: the loop does not break on a turn without tool calls
OnStreamEnd_NoBreak(s, toolMap, conns) ==
  LET pushed == [Push(s, s.message) EXCEPT
                    !.msgIdx = Len(s.currentMessages) + 1]
      toolCalls == s.message.tool_calls
      toolCallInfo == ToolCallInfo(toolCalls)
  IN
  IF CanCloseOrEnqueue(pushed)
  THEN ExecuteFrom(
         [ControllerEnqueue(pushed, toolCallInfo) EXCEPT
            !.message.content = @ \o toolCallInfo,
            !.currentMessages[pushed.msgIdx].content = @ \o toolCallInfo,
            !.tcIdx = 1],
         toolMap, conns)
  ELSE ChatCatch(pushed, "enqueue")

\* variant: a copy of the message is pushed, so the annotation added to the
\* message afterwards does not reach the conversation
OnStreamEnd_PushCopy(s, toolMap, conns) ==
  LET pushed == [Push(s, s.message) EXCEPT
                    !.msgIdx = Len(s.currentMessages) + 1]
      toolCalls == s.message.tool_calls
      toolCallInfo == ToolCallInfo(toolCalls)
  IN
  IF Len(toolCalls) = 0 THEN ChatClose(pushed)
  ELSE IF CanCloseOrEnqueue(pushed)
  THEN ExecuteFrom(
         [ControllerEnqueue(pushed, toolCallInfo) EXCEPT
            !.message.content = @ \o toolCallInfo,
            !.tcIdx = 1],
         toolMap, conns)
  ELSE ChatCatch(pushed, "enqueue")

\* lines 306-320: the response stream is exhausted
OnStreamEnd(s, toolMap, conns) ==
  LET pushed == [Push(s, s.message) EXCEPT
                    !.msgIdx = Len(s.currentMessages) + 1]
      toolCalls == s.message.tool_calls
      toolCallInfo == ToolCallInfo(toolCalls)
  IN
  IF Len(toolCalls) = 0 THEN ChatClose(pushed)
  ELSE IF CanCloseOrEnqueue(pushed)
  THEN ExecuteFrom(
         [ControllerEnqueue(pushed, toolCallInfo) EXCEPT
            !.message.content = @ \o toolCallInfo,
            !.currentMessages[pushed.msgIdx].content = @ \o toolCallInfo,
            !.tcIdx = 1],
         toolMap, conns)
  ELSE ChatCatch(pushed, "enqueue")


(***************************************************************************)
(* MCPClient.initialize and initializeTools.                               *)
(***************************************************************************)
ServerNames == <<"s1", "s2", "s3", "s4">>

\* entries of mcpServers: url is "missing", "invalid" (new URL throws) or
\* "valid"; command and args are present or not
SseServer(url) ==
  [type |-> "sse", url |-> url, command |-> FALSE, args |-> FALSE]
StdioServer(command, args) ==
  [type |-> "stdio", url |-> "missing", command |-> command, args |-> args]
OtherServer ==
  [type |-> "http", url |-> "valid", command |-> FALSE, args |-> FALSE]

ServerInfos ==
  {SseServer(u) : u \in {"missing", "invalid", "valid"}}
  \cup {StdioServer(TRUE, TRUE), StdioServer(FALSE, TRUE), StdioServer(TRUE, FALSE)}
  \cup {OtherServer}

Configs ==
  {[readable |-> FALSE, mcpServers |-> <<>>]}
  \cup {[readable |-> TRUE, mcpServers |-> l] :
          l \in UNION {[1..k -> ServerInfos] : k \in 0..MaxServers}}

\* lines 50-82 up to the connect call: what the try block does for one entry
ServerCheck(serverInfo) ==
  IF serverInfo.type = "sse"
  THEN IF serverInfo.url = "missing" THEN "URL is required for SSE server"
       ELSE IF serverInfo.url = "invalid" THEN "Invalid URL"
       ELSE "connect"
  ELSE IF serverInfo.type = "stdio"
  THEN IF ~serverInfo.command \/ ~serverInfo.args
       THEN "Command and args are required for stdio server"
       ELSE "connect"
  ELSE "Unsupported server type"

\* the error of the catch block of lines 83-88
ConnectError(name, cause) == <<"Failed to connect to MCP server", name, cause>>

\* variant: a rejected initialize() closes the connections it had opened
InitFailed_Closing(in, error) ==
  [in EXCEPT !.pc = "failed", !.error = error, !.open = {}]

\* a rejected initialize()
InitFailed(in, error) == [in EXCEPT !.pc = "failed", !.error = error]

\* initializeTools: the listTools call on the connection at index i
ListFrom(in, conns, i) ==
  IF i > Len(conns) THEN [in EXCEPT !.pc = "ok", !.idx = i]
  ELSE [in EXCEPT !.pc = "awaitList", !.idx = i,
                  !.listCalls = Append(@, conns[i])]

\* the for loop of lines 41-89 from entry i on, up to the next await, and
\* lines 91-97 once the loop is over
ConnectFrom(in, config, connected, conns, i) ==
  IF i > Len(config.mcpServers)
  THEN IF Len(connected) = 0
       THEN InitFailed(in, <<"No MCP servers were successfully connected">>)
       ELSE ListFrom(in, conns, 1)
  ELSE IF ServerCheck(config.mcpServers[i]) = "connect"
  THEN [in EXCEPT !.pc = "awaitConnect", !.idx = i,
                  !.attempts = Append(@, ServerNames[i])]
  ELSE InitFailed(in, ConnectError(ServerNames[i],
                                   ServerCheck(config.mcpServers[i])))

\* tool records and listings a server may return
Tool(name) ==
  [kind |-> "object", name |-> name, description |-> <<"about", name>>,
   items |-> <<>>]
Nameless ==
  [kind |-> "object", name |-> "", description |-> <<"anonymous">>,
   items |-> <<>>]
Null == [kind |-> "null", name |-> "", description |-> <<>>, items |-> <<>>]
Array(items) ==
  [kind |-> "array", name |-> "", description |-> <<>>, items |-> items]

\* a listing is an array, an object (its entries in key order) or anything else
ArrayListing(items) == [kind |-> "array", items |-> items, entries |-> <<>>]
ObjectListing(entries) == [kind |-> "object", items |-> <<>>, entries |-> entries]
OtherListing == [kind |-> "other", items |-> <<>>, entries |-> <<>>]

Entry(key, value) == [key |-> key, value |-> value]

HasArrayAt(entries, key) ==
  \E i \in DOMAIN entries : entries[i].key = key /\ entries[i].value.kind = "array"

ArrayAt(entries, key) ==
  entries[CHOOSE i \in DOMAIN entries : entries[i].key = key].value.items

\* variant: only the "tools" key is looked for in an object
ToolsArray_ToolsOnly(tools) ==
  IF tools.kind = "array" THEN tools.items
  ELSE IF tools.kind = "object"
  THEN IF HasArrayAt(tools.entries, "tools") THEN ArrayAt(tools.entries, "tools")
       ELSE [i \in DOMAIN tools.entries |-> tools.entries[i].value]
  ELSE <<>>

\* lines 109-127: coerce what listTools returned into an array
ToolsArray(tools) ==
  IF tools.kind = "array" THEN tools.items
  ELSE IF tools.kind = "object"
  THEN IF HasArrayAt(tools.entries, "tools") THEN ArrayAt(tools.entries, "tools")
       ELSE IF HasArrayAt(tools.entries, "result")
       THEN ArrayAt(tools.entries, "result")
       ELSE [i \in DOMAIN tools.entries |-> tools.entries[i].value]
  ELSE <<>>

Descriptor(tool, serverName) ==
  [name |-> tool.name, description |-> tool.description,
   inputSchema |-> Obj(<<>>), serverName |-> serverName]

EmptyMap == [n \in {} |-> Descriptor(Nameless, "")]

RECURSIVE RegisterTools(_, _, _)
RECURSIVE RegisterTools_FirstWins(_, _, _)

\* variant: a name that is already registered keeps its descriptor
RegisterTools_FirstWins(toolMap, serverName, toolsArray) ==
  IF toolsArray = <<>> THEN toolMap
  ELSE
    LET tool == Head(toolsArray)
        next == IF tool.kind = "object" /\ tool.name # ""
                   /\ tool.name \notin DOMAIN toolMap
                THEN [n \in DOMAIN toolMap \cup {tool.name} |->
                        IF n = tool.name THEN Descriptor(tool, serverName)
                        ELSE toolMap[n]]
                ELSE toolMap
    IN RegisterTools_FirstWins(next, serverName, Tail(toolsArray))

\* lines 130-139: register the named records of one server
RegisterTools(toolMap, serverName, toolsArray) ==
  IF toolsArray = <<>> THEN toolMap
  ELSE
    LET tool == Head(toolsArray)
        next == IF tool.kind = "object" /\ tool.name # ""
                THEN [n \in DOMAIN toolMap \cup {tool.name} |->
                        IF n = tool.name THEN Descriptor(tool, serverName)
                        ELSE toolMap[n]]
                ELSE toolMap
    IN RegisterTools(next, serverName, Tail(toolsArray))

RecordLists ==
  {<<Tool("t1")>>, <<Tool("t2"), Nameless>>, <<Tool("t1"), Null, Tool("t2")>>}

\* the shapes in which a server may hand over the records r: a bare array,
\* an object with the array under "tools" or under "result", an object keyed
\* by anything else
Variants(r) ==
  {ArrayListing(r),
   ObjectListing(<<Entry("tools", Array(r))>>),
   ObjectListing(<<Entry("result", Array(r))>>),
   ObjectListing([i \in DOMAIN r |-> Entry(ServerNames[i], r[i])])}

Listings == UNION {Variants(r) : r \in RecordLists} \cup {OtherListing}

\* requests are being served: the servers then list in array shape only
InRoute == \E r \in DOMAIN requests : requests[r].pc # "absent"

ListingsNow ==
  IF InRoute THEN {ArrayListing(r) : r \in RecordLists} \cup {OtherListing}
  ELSE Listings

\* initialize() is called: readFile, JSON.parse, then the first entry
InitStart ==
  /\ init.pc = "start"
  /\ init' = IF cfg.readable
             THEN ConnectFrom(init, cfg, connectedServers, clients, 1)
             ELSE InitFailed(init, <<"cannot read mcp.json">>)
  /\ UNCHANGED <<reqVars, cfg, clients, connectedServers, mcpToolMap, chats>>

\* await client.connect(transport) resolves
ConnectReturns ==
  /\ init.pc = "awaitConnect"
  /\ clients' = Append(clients, ServerNames[init.idx])
  /\ connectedServers' = Append(connectedServers, ServerNames[init.idx])
  /\ init' = ConnectFrom([init EXCEPT !.open = @ \cup {ServerNames[init.idx]}],
                          cfg, connectedServers', clients', init.idx + 1)
  /\ UNCHANGED <<reqVars, cfg, mcpToolMap, chats>>

\* variant: a failed connection is skipped and the loop goes on
ConnectThrows_Continue ==
  /\ init.pc = "awaitConnect"
  /\ init' = ConnectFrom(init, cfg, connectedServers, clients, init.idx + 1)
  /\ UNCHANGED <<reqVars, cfg, clients, connectedServers, mcpToolMap, chats>>

\* await client.connect(transport) rejects
ConnectThrows ==
  /\ init.pc = "awaitConnect"
  /\ init' = InitFailed(init, ConnectError(ServerNames[init.idx], "unreachable"))
  /\ UNCHANGED <<reqVars, cfg, clients, connectedServers, mcpToolMap, chats>>

\* await client.listTools() resolves
ListReturns ==
  /\ init.pc = "awaitList"
  /\ \E tools \in ListingsNow :
       /\ mcpToolMap' = RegisterTools(mcpToolMap, clients[init.idx],
                                      ToolsArray(tools))
       /\ init' = ListFrom([init EXCEPT !.listed = @ + 1,
                                        !.listings = Append(@, tools)],
                           clients, init.idx + 1)
  /\ UNCHANGED <<reqVars, cfg, clients, connectedServers, chats>>

\* await client.listTools() rejects
ListThrows ==
  /\ init.pc = "awaitList"
  /\ init' = InitFailed(init, <<"Failed to list MCP tools", "unreachable">>)
  /\ UNCHANGED <<reqVars, cfg, clients, connectedServers, mcpToolMap, chats>>

(***************************************************************************)
(* Inputs: what the caller, the model backend and the tool servers may     *)
(* hand to the loop.                                                       *)
(***************************************************************************)
UserMessage ==
  [role |-> "user", name |-> Undefined, content |-> <<"q">>, tool_calls |-> <<>>]

\* the state a successful initialize() leaves for servers s1 (lists tool t1)
\* and s2 (lists tool t2)
ReadyCfg == [readable |-> TRUE, mcpServers |-> <<SseServer("valid"), StdioServer(TRUE, TRUE)>>]
ReadyInit ==
  [pc |-> "ok", idx |-> 3, attempts |-> <<"s1", "s2">>,
   listCalls |-> <<"s1", "s2">>, listed |-> 2,
   listings |-> <<ArrayListing(<<Tool("t1")>>),
                  ArrayListing(<<Tool("t2"), Nameless>>)>>,
   open |-> {"s1", "s2"}, error |-> <<>>]
ReadyClients == <<"s1", "s2">>
ReadyToolMap ==
  RegisterTools(RegisterTools(EmptyMap, "s1", <<Tool("t1")>>),
                "s2", <<Tool("t2"), Nameless>>)

\* tool calls the backend may announce: a known tool with structured
\* arguments, a known tool with JSON text (padded with blanks), an
\* unregistered name, text that is not JSON, a value that is neither text
\* nor structured (a number, null)
KnownObjCall == [name |-> "t1", arguments |-> Obj(<<"x:1">>)]
KnownTextCall == [name |-> "t2", arguments |-> Str(<<" ", "{", "x:1", "}", " ">>)]
UnknownCall == [name |-> "nope", arguments |-> Obj(<<"x:1">>)]
BadJsonCall == [name |-> "t1", arguments |-> Str(<<"{", "x:1">>)]
BadTypeCall == [name |-> "t2", arguments |-> Num(<<"5">>)]
NullCall == [name |-> "t1", arguments |-> NullValue]

ToolCalls ==
  {KnownObjCall, KnownTextCall, UnknownCall, BadJsonCall, BadTypeCall, NullCall}

ToolCallLists ==
  {l \in UNION {[1..k -> ToolCalls] : k \in 0..MaxCalls} :
     \A i, j \in DOMAIN l : l[i] = l[j] => i = j}

\* one list for each way a list of calls can go: it succeeds, it succeeds
\* twice, it names no tool of the catalog, it cannot be decoded
FewCallLists ==
  {<<KnownObjCall>>, <<KnownTextCall, KnownObjCall>>, <<UnknownCall>>,
   <<BadJsonCall>>, <<NullCall>>}

Txt == <<"a", "b", "c", "d">>

\* the turns on which the backend and the servers answer with anything of
\* the domains above; on the other turns the backend streams one part
\* (text only, or one call of a known tool if the turn is one of the
\* invocation's toolTurns) and the tool succeeds
VariedTurns == {1}

\* the text the backend answers a conversation with: it quotes the question
Answer(messages) ==
  IF messages = <<>> THEN <<"re">>
  ELSE <<"re">> \o messages[Len(messages)].content

Part(content, has_tool_calls, tool_calls) ==
  [content |-> content, has_tool_calls |-> has_tool_calls,
   tool_calls |-> tool_calls]

Parts(s) ==
  IF s.iterationCount \in s.varied
  THEN {Part(t, FALSE, <<>>) : t \in {<<>>, <<Txt[s.nParts + 1]>>}}
       \cup {Part(t, TRUE, l) :
               t \in {<<>>, <<Txt[s.nParts + 1]>>},
               l \in IF s.callLists = "few" THEN FewCallLists ELSE ToolCallLists}
  ELSE IF s.nParts = 0
  THEN {Part(Answer(s.messages), FALSE, <<>>)}
       \cup {Part(<<>>, TRUE, <<KnownObjCall>>) : k \in {s.iterationCount} \cap s.toolTurns}
  ELSE {}

ToolResults == {Obj(<<"temp:22">>)}
ToolErrors == {"boom"}

(***************************************************************************)
(* State of one chat() invocation.                                         *)
(***************************************************************************)
\* lines 150-166: the catalog in the form the backend takes
GetOllamaTools(toolMap) ==
  [n \in DOMAIN toolMap |->
     [type |-> "function", name |-> toolMap[n].name,
      description |-> toolMap[n].description,
      parameters |-> toolMap[n].inputSchema]]

EmptyTools == GetOllamaTools(EmptyMap)

\* not cancelled; what the invocation had done when its stream was cancelled
NoCancel == [pc |-> "none", modelCalls |-> 0, serverCalls |-> 0,
             toolMessages |-> 0, enqueued |-> 0]
Cancelled(s) ==
  [pc |-> s.pc, modelCalls |-> s.modelCalls,
   serverCalls |-> Len(s.serverCalls),
   toolMessages |->
     Cardinality({i \in DOMAIN s.currentMessages :
                    s.currentMessages[i].role = "tool"}),
   enqueued |-> Len(s.enqueued)]

\* every awaited call answers; what the invocation had done when the call
\* it awaits stopped answering
NoHang == [pc |-> "none", modelCalls |-> 0, serverCalls |-> 0, enqueued |-> 0]
HungAt(s) ==
  [pc |-> s.pc, modelCalls |-> s.modelCalls,
   serverCalls |-> Len(s.serverCalls), enqueued |-> Len(s.enqueued)]

\* the call the invocation awaits can still settle
Answering(s) == s.hungAt = NoHang

\* variant: a timer rejects an await that is not answered
OnHang_Timeout(s) == ChatCatch(s, "timeout")

\* lines 281-291, 295 and 206-209: the awaits are bare, no timer or abort
\* signal stands beside them, so an unanswered call changes nothing
OnHang(s) == s

NewChat(messages) ==
  [pc |-> "start",
   messages |-> messages,           \* the caller's array
   currentMessages |-> <<>>,
   appendedAs |-> <<>>,             \* history: each message as it was appended
   arrived |-> <<>>,                \* history: what the backend and the servers
                                    \* delivered, in order of arrival
   aliased |-> FALSE,               \* currentMessages is the caller's array
   iterationCount |-> 0,
   message |-> PendingMessage,
   msgIdx |-> 0,                    \* where message sits in currentMessages
   nParts |-> 0,
   tcIdx |-> 0,
   parsedArgs |-> Obj(<<>>),
   strState |-> "readable",         \* the ReadableStream
   closeRequested |-> FALSE,
   queue |-> <<>>,
   consumer |-> "idle",             \* the reader: idle, pending, done, error
   observed |-> <<>>,
   enqueued |-> <<>>,               \* history: every chunk ever enqueued
   modelCalls |-> 0,                \* history: ollama.chat calls issued
   serverCalls |-> <<>>,            \* history: client.callTool calls issued
   toolOutcomes |-> <<>>,           \* history: "ok" or the error, per settled call
   texts |-> <<>>,                  \* history: text of the parts of this turn
   abortCause |-> "none",
   allTools |-> EmptyTools,         \* the tools chat() advertises to the backend
   readAt |-> {},                   \* history: init.pc whenever the maps were read
   varied |-> VariedTurns,          \* the turns answered with anything
   toolTurns |-> 1..maxIterations,  \* the other turns that may call a tool
   callLists |-> "all",             \* the lists of calls of a varied turn
   announced |-> 0,                 \* history: tool calls the parts of this
                                    \* turn have announced so far
   cancelledAt |-> NoCancel,        \* history: what had happened when the
                                    \* consumer cancelled
   hungAt |-> NoHang]               \* history: what had happened when the
                                    \* awaited call stopped answering

NoChat == [NewChat(<<>>) EXCEPT !.pc = "absent"]

(***************************************************************************)
(* State of one POST request and of the singleton getMCPClient keeps.      *)
(***************************************************************************)
NoResponse == [kind |-> "none", message |-> <<>>, status |-> 0]
NoError == [message |-> <<>>, status |-> 0, inner |-> <<>>]

\* a thrown Error: its message, its status (0: none) and the message of its
\* error property (empty: none)
Failure(message) == [message |-> message, status |-> 0, inner |-> <<>>]

NewRequest ==
  [pc |-> "body",           \* body, awaitInit, awaitClient, awaitChat, done
   messages |-> <<>>,
   client |-> 0,            \* what getMCPClient() returned to it
   failure |-> NoError,     \* history: the error raised while handling it
   initAtEntry |-> "none",  \* history: init.pc when it called getMCPClient
   response |-> NoResponse]

NoRequest == [NewRequest EXCEPT !.pc = "absent"]

\* the loop runs on only while the consumer lags at most MaxQueue chunks
MayRun(s) == Len(s.queue) <= MaxQueue

Init ==
  /\ cfg = ReadyCfg
  /\ init = ReadyInit
  /\ clients = ReadyClients
  /\ connectedServers = ReadyClients
  /\ mcpToolMap = ReadyToolMap
  /\ chats = [c \in Invocations |->
                IF c = 1
                THEN [NewChat(<<UserMessage>>) EXCEPT
                        !.allTools = GetOllamaTools(ReadyToolMap),
                        !.readAt = {"ok"}]
                ELSE NoChat]
  /\ mcpClientInstance = 1
  /\ initCalls = 1
  /\ requests = [r \in Invocations |-> NoRequest]

\* new ReadableStream({ async start(controller) { ... up to the first await
Start(c) ==
  /\ chats[c].pc = "start"
  /\ chats' = [chats EXCEPT ![c] =
       IterationStart(SpreadMessages(chats[c]))]
  /\ UNCHANGED <<reqVars, cfg, init, clients, connectedServers, mcpToolMap>>

\* await ollama.chat(...) resolves with the response stream
ModelReturns(c) ==
  /\ chats[c].pc = "awaitModel"
  /\ MayRun(chats[c])
  /\ Answering(chats[c])
  /\ chats' = [chats EXCEPT ![c] =
       [chats[c] EXCEPT !.pc = "stream", !.message = PendingMessage,
                        !.msgIdx = 0, !.nParts = 0, !.tcIdx = 0,
                        !.texts = <<>>, !.announced = 0]]
  /\ UNCHANGED <<reqVars, cfg, init, clients, connectedServers, mcpToolMap>>

\* await ollama.chat(...) rejects
ModelThrows(c) ==
  /\ chats[c].pc = "awaitModel"
  /\ MayRun(chats[c])
  /\ Answering(chats[c])
  /\ chats' = [chats EXCEPT ![c] = ChatCatch(chats[c], "model")]
  /\ UNCHANGED <<reqVars, cfg, init, clients, connectedServers, mcpToolMap>>

\* entries of the history of arrivals: a part with text, the end of a
\* response stream (with the tool calls the turn is left with), the result
\* of a tool call, the failure of a tool call
Arrival(kind, chunk, calls, result, errmsg) ==
  [kind |-> kind, chunk |-> chunk, calls |-> calls, result |-> result,
   errmsg |-> errmsg]
TextArrived(chunk) == Arrival("text", chunk, <<>>, Obj(<<>>), "")
StreamEnded(calls) == Arrival("end", <<>>, calls, Obj(<<>>), "")
ResultArrived(result) == Arrival("ok", <<>>, <<>>, result, "")
FailureArrived(errmsg) == Arrival("err", <<>>, <<>>, Obj(<<>>), errmsg)

\* for await (const part of response): the next part arrives
StreamPart(c) ==
  /\ chats[c].pc = "stream"
  /\ MayRun(chats[c])
  /\ Answering(chats[c])
  /\ chats[c].nParts < MaxParts
  /\ \E part \in Parts(chats[c]) :
       chats' = [chats EXCEPT ![c] =
         OnPart([chats[c] EXCEPT
                   !.arrived = IF part.content = <<>> THEN @
                               ELSE Append(@, TextArrived(part.content)),
                   !.announced = IF part.has_tool_calls
                                 THEN @ + Len(part.tool_calls) ELSE @],
                part)]
  /\ UNCHANGED <<reqVars, cfg, init, clients, connectedServers, mcpToolMap>>

\* for await (const part of response): the response stream fails
StreamThrows(c) ==
  /\ chats[c].pc = "stream"
  /\ MayRun(chats[c])
  /\ Answering(chats[c])
  /\ chats' = [chats EXCEPT ![c] = ChatCatch(chats[c], "model")]
  /\ UNCHANGED <<reqVars, cfg, init, clients, connectedServers, mcpToolMap>>

\* for await (const part of response): the response stream ends
StreamEnd(c) ==
  /\ chats[c].pc = "stream"
  /\ MayRun(chats[c])
  /\ Answering(chats[c])
  /\ chats' = [chats EXCEPT ![c] =
       OnStreamEnd([chats[c] EXCEPT
                      !.readAt = IF chats[c].message.tool_calls = <<>> THEN @
                                 ELSE @ \cup {init.pc},
                      !.arrived =
                         Append(@, StreamEnded(chats[c].message.tool_calls))],
                   mcpToolMap, clients)]
  /\ UNCHANGED <<reqVars, cfg, init, clients, connectedServers, mcpToolMap>>

\* lines 192-203: the next tool call, if any, looks into both maps
ReadsNext(s, in) ==
  IF s.tcIdx < Len(s.message.tool_calls) THEN s.readAt \cup {in.pc}
  ELSE s.readAt

\* await client.callTool(...) resolves
ToolReturns(c) ==
  /\ chats[c].pc = "awaitTool"
  /\ MayRun(chats[c])
  /\ Answering(chats[c])
  /\ \E result \in ToolResults :
       chats' = [chats EXCEPT ![c] =
         ToolSucceeded([chats[c] EXCEPT !.toolOutcomes = Append(@, "ok"),
                                        !.arrived = Append(@, ResultArrived(result)),
                                        !.readAt = ReadsNext(chats[c], init)],
                       mcpToolMap, clients, result)]
  /\ UNCHANGED <<reqVars, cfg, init, clients, connectedServers, mcpToolMap>>

\* await client.callTool(...) rejects
ToolThrows(c) ==
  /\ chats[c].pc = "awaitTool"
  /\ MayRun(chats[c])
  /\ Answering(chats[c])
  /\ chats[c].iterationCount \in chats[c].varied \/ InRoute
  /\ \E errmsg \in ToolErrors :
       chats' = [chats EXCEPT ![c] =
         ToolFailed([chats[c] EXCEPT !.toolOutcomes = Append(@, errmsg),
                                     !.arrived = Append(@, FailureArrived(errmsg)),
                                     !.readAt = ReadsNext(chats[c], init)],
                    mcpToolMap, clients, errmsg)]
  /\ UNCHANGED <<reqVars, cfg, init, clients, connectedServers, mcpToolMap>>

\* the consumer calls reader.read(): it takes the head of the queue, learns
\* that the stream is closed or errored, or is left pending
ReaderRead(s) ==
  IF s.queue # <<>>
  THEN [s EXCEPT !.observed = Append(@, Head(s.queue)),
                 !.queue = Tail(@),
                 !.strState = IF s.closeRequested /\ Len(s.queue) = 1
                              THEN "closed" ELSE @]
  ELSE IF s.strState = "closed" THEN [s EXCEPT !.consumer = "done"]
  ELSE IF s.strState = "errored" THEN [s EXCEPT !.consumer = "error"]
  ELSE [s EXCEPT !.consumer = "pending"]

\* the reader of a request's stream exists once POST has returned it
Read(c) ==
  /\ chats[c].pc # "absent"
  /\ requests[c].pc \in {"absent", "done"}
  /\ chats[c].consumer = "idle"
  /\ chats' = [chats EXCEPT ![c] = ReaderRead(chats[c])]
  /\ UNCHANGED <<reqVars, cfg, init, clients, connectedServers, mcpToolMap>>

\* the consumer calls reader.cancel(): a readable stream is closed and its
\* queue discarded (the stream of chat() has no cancel callback of its own)
ReaderCancel(s) ==
  IF s.strState = "readable"
  THEN [s EXCEPT !.strState = "closed", !.queue = <<>>,
                 !.consumer = "cancelled", !.cancelledAt = Cancelled(s)]
  ELSE [s EXCEPT !.consumer = "cancelled", !.cancelledAt = Cancelled(s)]

\* the consumer stops reading the stream it was handed
Cancel(c) ==
  /\ chats[c].pc \notin {"absent", "start"}
  /\ requests[c].pc \in {"absent", "done"}
  /\ chats[c].consumer \in {"idle", "pending"}
  /\ chats' = [chats EXCEPT ![c] = ReaderCancel(chats[c])]
  /\ UNCHANGED <<reqVars, cfg, init, clients, connectedServers, mcpToolMap>>

\* what happens to an invocation once its start callback has run
ChatStep(c) ==
  \/ ModelReturns(c)
  \/ ModelThrows(c)
  \/ StreamPart(c)
  \/ StreamThrows(c)
  \/ StreamEnd(c)
  \/ ToolReturns(c)
  \/ ToolThrows(c)
  \/ Read(c)

Next ==
  \E c \in Invocations :
    \/ Start(c)
    \/ ChatStep(c)

Spec == Init /\ [][Next]_vars

\* the same invocation with a consumer that may cancel
NextCancel ==
  \E c \in Invocations :
    \/ Start(c)
    \/ ChatStep(c)
    \/ Cancel(c)

SpecCancel == Init /\ [][NextCancel]_vars

\* the model backend, its response stream or the tool server stops answering
\* the call the invocation awaits
Hang(c) ==
  /\ chats[c].pc \in {"awaitModel", "stream", "awaitTool"}
  /\ Answering(chats[c])
  /\ chats' = [chats EXCEPT ![c] =
       [OnHang(chats[c]) EXCEPT !.hungAt = HungAt(chats[c])]]
  /\ UNCHANGED <<reqVars, cfg, init, clients, connectedServers, mcpToolMap>>

\* the same invocation with calls that may never be answered; the consumer
\* reads on and does not cancel
NextHang ==
  \E c \in Invocations :
    \/ Start(c)
    \/ ChatStep(c)
    \/ Hang(c)

SpecHang == Init /\ [][NextHang]_vars

\* every pending await settles (the backend answers or fails, its stream
\* delivers, ends or fails, the tool server answers or fails), the start
\* callback runs, and the consumer keeps reading
Fairness ==
  \A c \in Invocations :
    /\ WF_vars(Start(c))
    /\ WF_vars(ModelReturns(c) \/ ModelThrows(c))
    /\ WF_vars(StreamPart(c) \/ StreamThrows(c) \/ StreamEnd(c))
    /\ WF_vars(ToolReturns(c) \/ ToolThrows(c))
    /\ WF_vars(Read(c))

\* the same invocation with the lists of calls of FewCallLists
InitLive ==
  /\ cfg = ReadyCfg
  /\ init = ReadyInit
  /\ clients = ReadyClients
  /\ connectedServers = ReadyClients
  /\ mcpToolMap = ReadyToolMap
  /\ chats = [c \in Invocations |->
                IF c = 1
                THEN [NewChat(<<UserMessage>>) EXCEPT
                        !.allTools = GetOllamaTools(ReadyToolMap),
                        !.readAt = {"ok"},
                        !.callLists = "few"]
                ELSE NoChat]
  /\ mcpClientInstance = 1
  /\ initCalls = 1
  /\ requests = [r \in Invocations |-> NoRequest]

SpecLive == InitLive /\ [][Next]_vars /\ Fairness


(***************************************************************************)
(* Initialization on its own: any configuration, any outcome of each       *)
(* connect and listTools call.                                             *)
(***************************************************************************)
NewInit ==
  [pc |-> "start", idx |-> 0,
   attempts |-> <<>>,     \* history: servers client.connect was called for
   listCalls |-> <<>>,    \* history: servers client.listTools was called for
   listed |-> 0,          \* history: listTools calls that resolved
   listings |-> <<>>,     \* history: what each of them resolved with
   open |-> {},           \* connections that are open
   error |-> <<>>]

InitI ==
  /\ cfg \in Configs
  /\ init = NewInit
  /\ clients = <<>>
  /\ connectedServers = <<>>
  /\ mcpToolMap = EmptyMap
  /\ chats = [c \in Invocations |-> NoChat]
  /\ mcpClientInstance = 1
  /\ initCalls = 1
  /\ requests = [r \in Invocations |-> NoRequest]

NextInit ==
  \/ InitStart
  \/ ConnectReturns
  \/ ConnectThrows
  \/ ListReturns
  \/ ListThrows

SpecInit == InitI /\ [][NextInit]_vars


(***************************************************************************)
(* The route: POST of src/unnamed/part_000 and getMCPClient.  Two requests *)
(* arrive at a process that has not built its client yet.                  *)
(***************************************************************************)
Questions == <<"q1", "q2">>

RequestMessage(r) ==
  [role |-> "user", name |-> Undefined, content |-> <<Questions[r]>>,
   tool_calls |-> <<>>]

\* the configurations the route is run with: unreadable, one server, two
\* servers, one server followed by an entry without its url
RouteConfigs ==
  {[readable |-> FALSE, mcpServers |-> <<>>],
   [readable |-> TRUE, mcpServers |-> <<SseServer("valid")>>],
   [readable |-> TRUE, mcpServers |-> <<SseServer("valid"), SseServer("missing")>>]}

\* lines 32-40 of POST: the response the catch block builds
ErrorResponse(error) ==
  [kind |-> "error",
   message |-> IF error.inner # <<>> THEN error.inner
               ELSE IF error.message # <<>> THEN error.message
               ELSE <<"An unexpected error occurred">>,
   status |-> IF error.status # 0 THEN error.status ELSE 500]

\* variant: the conversation is kept on the shared client, so an invocation
\* starts from what the invocations before it have gathered
CallChat_SharedConversation(messages, toolMap, in) ==
  LET others == {d \in DOMAIN chats : chats[d].pc # "absent"}
      shared == IF others = {} THEN <<>>
                ELSE chats[CHOOSE d \in others : TRUE].currentMessages
  IN IterationStart([NewChat(messages) EXCEPT
                       !.currentMessages = shared \o messages,
                       !.appendedAs = shared \o messages,
                       !.allTools = GetOllamaTools(toolMap),
                       !.readAt = {in.pc},
                       !.varied = {},
                       !.toolTurns = {1}])

\* variant: a client whose initialization failed is built again
GetMCPClient_Retry(instance, calls, in) ==
  IF instance = 0 \/ in.pc = "failed"
  THEN [instance |-> calls + 1, calls |-> calls + 1,
        init |-> NewInit, wait |-> "awaitInit"]
  ELSE [instance |-> instance, calls |-> calls, init |-> in,
        wait |-> "awaitClient"]

\* getMCPClient up to its await: the instance is stored before initialize()
\* is awaited, and initialize() runs up to its readFile
GetMCPClient(instance, calls, in) ==
  IF instance = 0
  THEN [instance |-> calls + 1, calls |-> calls + 1,
        init |-> NewInit, wait |-> "awaitInit"]
  ELSE [instance |-> instance, calls |-> calls, init |-> in,
        wait |-> "awaitClient"]

\* mcpClient.chat(chatSettings, messages): the tools are read, the stream is
\* built and its start callback runs up to the first model call
CallChat(messages, toolMap, in) ==
  IterationStart([SpreadMessages(NewChat(messages)) EXCEPT
                    !.allTools = GetOllamaTools(toolMap),
                    !.readAt = {in.pc},
                    !.varied = {},
                    !.toolTurns = {1}])

\* await request.json() rejects: POST itself rejects
BodyRejects(r) ==
  /\ requests[r].pc = "body"
  /\ requests' = [requests EXCEPT ![r] =
       [@ EXCEPT !.pc = "done",
                 !.failure = Failure(<<"Unexpected end of JSON input">>),
                 !.response = [NoResponse EXCEPT !.kind = "thrown"]]]
  /\ UNCHANGED <<cfg, init, clients, connectedServers, mcpToolMap, chats,
                 mcpClientInstance, initCalls>>

\* await request.json() resolves: the try block runs up to the await of
\* getMCPClient()
BodyResolves(r) ==
  /\ requests[r].pc = "body"
  /\ LET g == GetMCPClient(mcpClientInstance, initCalls, init) IN
       /\ mcpClientInstance' = g.instance
       /\ initCalls' = g.calls
       /\ init' = g.init
       /\ requests' = [requests EXCEPT ![r] =
            [@ EXCEPT !.pc = g.wait, !.messages = <<RequestMessage(r)>>,
                      !.initAtEntry = init.pc]]
  /\ UNCHANGED <<cfg, clients, connectedServers, mcpToolMap, chats>>

\* await getMCPClient() resolves for the request that waited for
\* initialize(), or for one that found the instance in place
ClientReturns(r) ==
  /\ \/ requests[r].pc = "awaitInit" /\ init.pc = "ok"
     \/ requests[r].pc = "awaitClient"
  /\ chats[r].pc = "absent"
  /\ chats' = [chats EXCEPT ![r] = CallChat(requests[r].messages, mcpToolMap, init)]
  /\ requests' = [requests EXCEPT ![r] =
       [@ EXCEPT !.pc = "awaitChat", !.client = mcpClientInstance]]
  /\ UNCHANGED <<cfg, init, clients, connectedServers, mcpToolMap,
                 mcpClientInstance, initCalls>>

\* await getMCPClient() rejects with the error of initialize()
ClientThrows(r) ==
  /\ requests[r].pc = "awaitInit" /\ init.pc = "failed"
  /\ requests' = [requests EXCEPT ![r] =
       [@ EXCEPT !.pc = "done", !.failure = Failure(init.error),
                 !.response = ErrorResponse(Failure(init.error))]]
  /\ UNCHANGED <<cfg, init, clients, connectedServers, mcpToolMap, chats,
                 mcpClientInstance, initCalls>>

\* await mcpClient.chat(...) resolves: the stream is the response
Respond(r) ==
  /\ requests[r].pc = "awaitChat"
  /\ requests' = [requests EXCEPT ![r] =
       [@ EXCEPT !.pc = "done",
                 !.response = [NoResponse EXCEPT !.kind = "stream", !.status = 200]]]
  /\ UNCHANGED <<cfg, init, clients, connectedServers, mcpToolMap, chats,
                 mcpClientInstance, initCalls>>

InitRoute ==
  /\ cfg \in RouteConfigs
  /\ init = [NewInit EXCEPT !.pc = "none"]
  /\ clients = <<>>
  /\ connectedServers = <<>>
  /\ mcpToolMap = EmptyMap
  /\ chats = [c \in Invocations |-> NoChat]
  /\ mcpClientInstance = 0
  /\ initCalls = 0
  /\ requests = [r \in Invocations |-> NewRequest]

NextRoute ==
  \/ \E r \in Invocations :
       \/ BodyRejects(r)
       \/ BodyResolves(r)
       \/ ClientReturns(r)
       \/ ClientThrows(r)
       \/ Respond(r)
  \/ NextInit
  \/ \E c \in Invocations : ChatStep(c)

SpecRoute == InitRoute /\ [][NextRoute]_vars


(***************************************************************************)
(* Properties of one chat invocation (specification Spec).                 *)
(***************************************************************************)
c1 == chats[1]

\* the stream was closed by controller.close(): closed, or closing once the
\* consumer has drained the queue
ClosedOk(s) == s.strState = "closed" \/ (s.strState = "readable" /\ s.closeRequested)

\* failures of the backend or of resolving/decoding a tool call
InputFailures == {"model", "decode", "unknown"}

\* C1: if every turn of the backend announces at least one tool call and
\* every call resolves and decodes, the invocation makes exactly
\* maxIterations model calls and then closes the stream without erroring it:
\* there are never more than maxIterations model calls, a loop that ended
\* after a turn with tool calls made exactly maxIterations of them and
\* closed the stream, and the loop aborts only on a backend failure or on a
\* call that does not resolve or decode.
C1_ExactlyMaxIterations ==
  /\ c1.modelCalls <= maxIterations
  /\ (c1.pc = "done" /\ c1.message.tool_calls # <<>>) =>
       /\ c1.modelCalls = maxIterations
       /\ ClosedOk(c1)
  /\ c1.pc = "aborted" => c1.abortCause \in InputFailures
  /\ c1.strState = "errored" => c1.pc = "aborted"

C1_Witness ==
  /\ c1.pc = "done"
  /\ c1.message.tool_calls # <<>>
  /\ c1.modelCalls = maxIterations
  /\ Len(c1.serverCalls) = maxIterations

\* C2: when the first turn completes with no tool call, the stream carries
\* exactly the text chunks of that turn (no annotation), one model call was
\* made, no tool was invoked and the stream is closed.
C2_NoToolCallsOneIteration ==
  (/\ Len(c1.currentMessages) > Len(c1.messages)
   /\ c1.currentMessages[Len(c1.messages) + 1].tool_calls = <<>>) =>
     /\ c1.pc = "done"
     /\ c1.iterationCount = 1
     /\ c1.enqueued = c1.texts
     /\ c1.modelCalls = 1
     /\ c1.serverCalls = <<>>
     /\ ClosedOk(c1)

C2_Witness ==
  /\ c1.pc = "done"
  /\ c1.iterationCount = 1
  /\ Len(c1.enqueued) = 2
  /\ c1.strState = "closed"


\* the assistant message of the first turn, once it is in the conversation
FirstTurnPushed(s) == Len(s.currentMessages) > Len(s.messages)
FirstAssistant(s) == s.currentMessages[Len(s.messages) + 1]

\* arguments that are structured, or text that is well-formed JSON
WellFormed(args) ==
  \/ args.type = "object"
  \/ args.type = "string" /\ JSONParse(Trim(args.v)).ok

\* what every well-formed argument value of ToolCalls denotes
ExpectedArgs == Obj(<<"x:1">>)

ExpectedServerCall(toolCall) ==
  [serverName |-> mcpToolMap[toolCall.name].serverName,
   name |-> toolCall.name, arguments |-> ExpectedArgs]

\* C3: when the first turn calls one known tool (with well-formed
\* arguments), the stream carries the text of the turn, then the tool-call
\* annotation; the tool is invoked exactly once, on its server, with the
\* decoded arguments; once it has returned, the stream carries the
\* tool-result annotation next, exactly one tool-role message follows the
\* assistant message, and the second model call has been issued.
C3_OneKnownToolCall ==
  (/\ FirstTurnPushed(c1)
   /\ Len(FirstAssistant(c1).tool_calls) = 1
   /\ FirstAssistant(c1).tool_calls[1].name \in DOMAIN mcpToolMap
   /\ WellFormed(FirstAssistant(c1).tool_calls[1].arguments)) =>
     LET toolCall == FirstAssistant(c1).tool_calls[1] IN
     /\ c1.serverCalls[1] = ExpectedServerCall(toolCall)
     /\ c1.iterationCount = 1 =>
          /\ c1.pc = "awaitTool"
          /\ c1.enqueued = c1.texts \o <<ToolCallInfo(<<toolCall>>)>>
          /\ Len(c1.serverCalls) = 1
          /\ Len(c1.currentMessages) = Len(c1.messages) + 1
     /\ c1.toolOutcomes # <<>> => c1.modelCalls >= 2
     /\ (c1.iterationCount = 2 /\ c1.pc = "awaitModel"
         /\ c1.toolOutcomes = <<"ok">>) =>
          \E result \in ToolResults :
            /\ c1.enqueued =
                 c1.texts \o <<ToolCallInfo(<<toolCall>>),
                               ToolResultInfo(toolCall.name, result)>>
            /\ c1.currentMessages =
                 c1.messages \o <<FirstAssistant(c1),
                                  ToolMessage(toolCall.name, JSONStringify(result))>>
            /\ Len(c1.serverCalls) = 1
            /\ c1.modelCalls = 2

C3_Witness ==
  /\ c1.iterationCount = 2
  /\ c1.pc = "awaitModel"
  /\ c1.toolOutcomes = <<"ok">>
  /\ FirstAssistant(c1).tool_calls = <<KnownTextCall>>
  /\ c1.texts = <<<<"a">>, <<"b">>>>


IsToolRole(m) == m.role = "tool"
ToolMsgs(s) == SelectSeq(s.currentMessages, IsToolRole)

IsToolAnnotation(chunk) == chunk[1] \in {"Tool Result", "Tool Error"}
ToolAnnotations(s) == SelectSeq(s.enqueued, IsToolAnnotation)

ErrorContent(functionName, errmsg) ==
  JSONStringify(ErrorPayload(functionName, errmsg))

\* C4 (as claimed): a tool call whose name is not in the catalog makes no
\* server call, gets an error-bearing tool-role message in the conversation,
\* and does not abort the loop.
C4_UnknownToolIsolated ==
  /\ \A i \in DOMAIN c1.serverCalls : c1.serverCalls[i].name \in DOMAIN mcpToolMap
  /\ c1.abortCause # "unknown"
  /\ \A k \in DOMAIN c1.message.tool_calls :
       (/\ c1.msgIdx > 0
        /\ k < c1.tcIdx
        /\ c1.message.tool_calls[k].name \notin DOMAIN mcpToolMap) =>
          /\ Len(c1.currentMessages) >= c1.msgIdx + k
          /\ IsToolRole(c1.currentMessages[c1.msgIdx + k])
          /\ c1.currentMessages[c1.msgIdx + k].content[2] =
               "error:Failed to execute tool"

\* C5 (as claimed): a tool call whose arguments cannot be decoded gets a
\* tool-role error message in the conversation and does not abort the loop
\* or error the stream.
C5_DecodeFailureIsolated ==
  /\ c1.abortCause # "decode"
  /\ \A k \in DOMAIN c1.message.tool_calls :
       (/\ c1.msgIdx > 0
        /\ k < c1.tcIdx
        /\ ~WellFormed(c1.message.tool_calls[k].arguments)) =>
          /\ Len(c1.currentMessages) >= c1.msgIdx + k
          /\ IsToolRole(c1.currentMessages[c1.msgIdx + k])
          /\ c1.currentMessages[c1.msgIdx + k].content[2] =
               "error:Failed to execute tool"

\* C6: a failing dispatch of a resolved tool call is caught: the call gets
\* exactly one tool-role message, whose content describes the error, and one
\* tool-error annotation on the stream; the loop goes on to the next call,
\* and neither the loop nor the stream is failed by it.
C6_DispatchFailureFolded ==
  /\ Len(ToolMsgs(c1)) = Len(c1.toolOutcomes)
  /\ Len(ToolAnnotations(c1)) = Len(c1.toolOutcomes)
  /\ \A j \in DOMAIN c1.toolOutcomes :
       c1.toolOutcomes[j] # "ok" =>
         /\ ToolMsgs(c1)[j] =
              ToolMessage(c1.serverCalls[j].name,
                          ErrorContent(c1.serverCalls[j].name, c1.toolOutcomes[j]))
         /\ ToolAnnotations(c1)[j] =
              ToolErrorInfo(c1.serverCalls[j].name, c1.toolOutcomes[j])
  /\ c1.pc = "aborted" => c1.abortCause \in InputFailures
  /\ (c1.pc = "awaitTool" /\ c1.tcIdx > 1) =>
       Len(c1.toolOutcomes) = Len(c1.serverCalls) - 1

C6_Witness ==
  /\ c1.pc = "awaitTool"
  /\ c1.tcIdx = 2
  /\ c1.toolOutcomes = <<"boom">>
  /\ c1.strState = "readable"

\* C7: the tool calls of a turn run one at a time in the order announced:
\* at most one invocation is in flight, a call is started only after every
\* earlier call of the turn has returned and its tool-role message is in
\* the conversation, and the tool-role messages are in call order.
C7_SequentialInOrder ==
  /\ Len(c1.serverCalls) - Len(c1.toolOutcomes) = IF c1.pc = "awaitTool" THEN 1 ELSE 0
  /\ c1.pc = "awaitTool" =>
       /\ Len(ToolMsgs(c1)) = Len(c1.serverCalls) - 1
       /\ Len(c1.currentMessages) = c1.msgIdx + c1.tcIdx - 1
       /\ \A k \in 1..c1.tcIdx :
            c1.serverCalls[Len(c1.serverCalls) - c1.tcIdx + k].name =
              c1.message.tool_calls[k].name
       /\ \A k \in 1..(c1.tcIdx - 1) :
            /\ IsToolRole(c1.currentMessages[c1.msgIdx + k])
            /\ c1.currentMessages[c1.msgIdx + k].name = c1.message.tool_calls[k].name
  /\ \A j \in DOMAIN ToolMsgs(c1) : ToolMsgs(c1)[j].name = c1.serverCalls[j].name

C7_Witness ==
  /\ c1.pc = "awaitTool"
  /\ c1.tcIdx = 2
  /\ c1.message.tool_calls = <<KnownTextCall, KnownObjCall>>
  /\ Len(ToolMsgs(c1)) = 1

\* C8 (as claimed): a consumer that reads until completion or error has
\* observed every chunk that was enqueued.
C8_NoChunkLost ==
  c1.consumer \in {"done", "error"} => c1.observed = c1.enqueued


(***************************************************************************)
(* Properties of initialize() (specification SpecInit).                    *)
(***************************************************************************)
InitSettled == init.pc \in {"ok", "failed"}

\* C9 (as claimed): initialize() succeeds if and only if at least one server
\* connects.
C9_SucceedsIffOneConnects ==
  InitSettled => (init.pc = "ok" <=> Len(connectedServers) >= 1)

\* C9 (amended): initialize() succeeds if and only if at least one server is
\* configured, every configured server connects and tool listing succeeds on
\* every connected server; it fails when zero servers connect.
C9_SucceedsIffAllConnectAndList ==
  InitSettled =>
    /\ init.pc = "ok" <=>
         /\ Len(cfg.mcpServers) >= 1
         /\ Len(connectedServers) = Len(cfg.mcpServers)
         /\ init.listed = Len(clients)
    /\ Len(connectedServers) = 0 => init.pc = "failed"

C9_Witness ==
  /\ init.pc = "ok"
  /\ Len(cfg.mcpServers) = 2
  /\ connectedServers = <<"s1", "s2">>
  /\ init.listed = 2

\* C10: initialize() attempts the connections one at a time in configuration
\* order; a failed attempt rejects at once, so that no later server is
\* attempted (and none is listed), and the connections opened before it
\* stay open.
C10_FailFastInOrder ==
  /\ \A i \in DOMAIN init.attempts : init.attempts[i] = ServerNames[i]
  /\ clients = SubSeq(init.attempts, 1, Len(clients))
  /\ Len(init.attempts) - Len(clients) \in {0, 1}
  /\ init.pc = "awaitConnect" => Len(init.attempts) = Len(clients) + 1
  /\ Len(init.attempts) > Len(clients) =>
       /\ init.pc \in {"awaitConnect", "failed"}
       /\ init.listCalls = <<>>
  /\ init.pc = "failed" => init.open = {clients[i] : i \in DOMAIN clients}

C10_Witness ==
  /\ init.pc = "failed"
  /\ Len(cfg.mcpServers) = 3
  /\ init.attempts = <<"s1", "s2">>
  /\ clients = <<"s1">>
  /\ init.open = {"s1"}


(***************************************************************************)
(* Properties of the catalog (specification SpecInit).                     *)
(***************************************************************************)
\* the records a listing carries, whatever its shape
CarriedRecords(listing) ==
  IF listing = OtherListing THEN <<>>
  ELSE CHOOSE r \in RecordLists : listing \in Variants(r)

\* the names of the records that are objects with a non-empty name
NamesOf(r) ==
  {r[i].name : i \in {j \in DOMAIN r : r[j].kind = "object" /\ r[j].name # ""}}

\* the names the j-th settled listTools call listed
ListedNames(j) == NamesOf(CarriedRecords(init.listings[j]))

\* the listTools calls that listed the name n
ListersOf(n) == {j \in DOMAIN init.listings : n \in ListedNames(j)}

LastOf(S) == CHOOSE j \in S : \A k \in S : k <= j

\* the names whose entry was registered by the given server
OwnedBy(serverName) ==
  {n \in DOMAIN mcpToolMap : mcpToolMap[n].serverName = serverName}

\* C11: once the catalog is built, the tool map has an entry for exactly the
\* names some connected server listed, and the entry of a name is the one of
\* the last server, in connection order, that listed it.
C11_OneEntryPerNameLaterWins ==
  init.pc = "ok" =>
    /\ DOMAIN mcpToolMap = UNION {ListedNames(j) : j \in DOMAIN init.listings}
    /\ \A n \in DOMAIN mcpToolMap :
         /\ mcpToolMap[n].name = n
         /\ mcpToolMap[n].serverName = clients[LastOf(ListersOf(n))]

\* two servers listed t1 and the entry of t1 is the later server's
C11_Witness ==
  /\ init.pc = "ok"
  /\ \E j, k \in ListersOf("t1") : j < k
  /\ mcpToolMap["t1"].serverName = clients[LastOf(ListersOf("t1"))]
  /\ mcpToolMap["t1"].serverName # clients[1]

\* C12: whatever the shape of the listing a server returned, that server
\* registers exactly the names of the records that are objects with a
\* non-empty name, and no entry exists for a record without a name.
C12_NamedRecordsOfAnyShape ==
  /\ "" \notin DOMAIN mcpToolMap
  /\ init.listed \in DOMAIN init.listings =>
       OwnedBy(clients[init.listed]) = ListedNames(init.listed)

\* the last listing was an object under "result", or a keyed mapping, that
\* carried a record without a name, and its named records are registered
C12_Witness ==
  /\ init.listed \in DOMAIN init.listings
  /\ init.listings[init.listed].kind = "object"
  /\ ~HasArrayAt(init.listings[init.listed].entries, "tools")
  /\ \E i \in DOMAIN CarriedRecords(init.listings[init.listed]) :
       CarriedRecords(init.listings[init.listed])[i].name = ""
  /\ OwnedBy(clients[init.listed]) # {}


(***************************************************************************)
(* Argument decoding (specification Spec).                                 *)
(***************************************************************************)
\* text that is one object literal between blanks, and the members it holds
IsObjectText(chars) ==
  \E i, j \in DOMAIN chars :
    /\ i < j /\ chars[i] = "{" /\ chars[j] = "}"
    /\ \A k \in DOMAIN chars :
         /\ (k < i \/ k > j) => chars[k] = " "
         /\ (i < k /\ k < j) => chars[k] \notin {"{", "}", " "}

MembersOf(chars) ==
  SelectSeq(chars, LAMBDA t : t \notin {"{", "}", " "})

\* the tool call executeToolCalls is at, and its argument value
CurrentCall(s) == s.message.tool_calls[s.tcIdx]

\* C13: a call is dispatched only with text or structured arguments: text
\* is trimmed and parsed (an object literal between blanks yields the
\* object of its members), a structured value is passed on unchanged; when
\* the argument value of the current call is of any other kind the
\* invocation fails with the decode error and no server call is issued for
\* that call.
C13_ArgumentDecoding ==
  /\ c1.pc = "awaitTool" =>
       LET raw == CurrentCall(c1).arguments
           sent == c1.serverCalls[Len(c1.serverCalls)].arguments IN
       /\ raw.type \in {"string", "object"}
       /\ raw.type = "object" => sent = raw
       /\ (raw.type = "string" /\ IsObjectText(raw.v)) =>
            sent = Obj(MembersOf(raw.v))
  /\ (/\ c1.tcIdx \in DOMAIN c1.message.tool_calls
      /\ CurrentCall(c1).arguments.type \notin {"string", "object"}) =>
       /\ c1.pc = "aborted"
       /\ c1.abortCause = "decode"
       /\ Len(c1.serverCalls) = Len(c1.toolOutcomes)
       /\ c1.iterationCount = 1 => Len(c1.serverCalls) = c1.tcIdx - 1

\* the first call carried padded JSON text and was dispatched with the
\* object it denotes; the second carries null and failed to decode
C13_Witness ==
  /\ c1.pc = "aborted" /\ c1.abortCause = "decode"
  /\ c1.message.tool_calls = <<KnownTextCall, NullCall>>
  /\ c1.tcIdx = 2
  /\ Len(c1.serverCalls) = 1
  /\ c1.serverCalls[1].arguments = Obj(<<"x:1">>)


(***************************************************************************)
(* Properties of the route and the singleton (specification SpecRoute),    *)
(* and of configuration errors (specification SpecInit).                   *)
(***************************************************************************)
\* C14: however the getMCPClient() calls of concurrent requests interleave,
\* one instance is built and initialized at most once, no server is
\* connected twice, every call that returns hands out that one instance,
\* and no stored connection is ever closed.
C14_InitializedOnceSameInstance ==
  /\ initCalls <= 1
  /\ (mcpClientInstance = 0) <=> (initCalls = 0)
  /\ \A i, j \in DOMAIN init.attempts :
       init.attempts[i] = init.attempts[j] => i = j
  /\ \A r \in DOMAIN requests :
       requests[r].client # 0 =>
         requests[r].client = 1 /\ mcpClientInstance = 1
  /\ \A i \in DOMAIN clients : clients[i] \in init.open

\* both requests were handed the client, the second one having called
\* getMCPClient() while the initialize() started by the first was running
C14_Witness ==
  /\ initCalls = 1
  /\ requests[1].client = 1 /\ requests[2].client = 1
  /\ requests[1].initAtEntry = "none"
  /\ requests[2].initAtEntry \in {"start", "awaitConnect", "awaitList"}

\* C15: no chat invocation reads the tool map or the connection map while
\* initialization has not completed.
C15_NoReadBeforeInitialized ==
  \A c \in DOMAIN chats : chats[c].readAt \subseteq {"ok"}

\* C16: a request that calls getMCPClient() after initialization has failed
\* is answered with an error response, never with a stream.
C16_FailedInitAlwaysErrorResponse ==
  \A r \in DOMAIN requests :
    (requests[r].initAtEntry = "failed" /\ requests[r].pc = "done") =>
      requests[r].response.kind = "error"

\* C17: a handled request is answered with the stream if nothing failed,
\* and otherwise with an error response that carries the message of the
\* failure, with the status of the failure if it has one and 500 if not.
C17_FailureBeforeStreamingStructured ==
  \A r \in DOMAIN requests :
    requests[r].pc = "done" =>
      IF requests[r].failure = NoError
      THEN requests[r].response.kind = "stream"
      ELSE requests[r].response =
             [kind |-> "error", message |-> requests[r].failure.message,
              status |-> IF requests[r].failure.status # 0
                         THEN requests[r].failure.status ELSE 500]

\* the errors raised for an entry that lacks a field or has an unknown type
ConfigCauses ==
  {"URL is required for SSE server",
   "Command and args are required for stdio server",
   "Unsupported server type"}

\* C18: when initialize() fails because an entry lacks a required field or
\* has an unsupported type, no connection was attempted and no server is
\* connected.
C18_ConfigErrorBeforeAnyConnect ==
  (/\ init.pc = "failed"
   /\ Len(init.error) = 3
   /\ init.error[3] \in ConfigCauses) =>
     /\ init.attempts = <<>>
     /\ clients = <<>>
     /\ init.open = {}


(***************************************************************************)
(* Isolation of concurrent chat invocations (specification SpecRoute).     *)
(***************************************************************************)
Range(f) == {f[i] : i \in DOMAIN f}

\* the invocation other than c
Other(c) == CHOOSE d \in Invocations : d # c

\* every text the invocation holds or has put on its stream
TextsOf(s) ==
  {s.currentMessages[i].content : i \in DOMAIN s.currentMessages}
  \cup Range(s.enqueued) \cup Range(s.queue) \cup Range(s.observed)

\* C19: each of two concurrent invocations runs on its own conversation,
\* counter and stream: its conversation starts with the messages of its
\* own request and holds one tool-role message per tool call it settled
\* itself, its counter counts its own model calls, and neither its
\* conversation nor its stream holds a text that quotes the question the
\* other invocation was asked.
C19_ConcurrentChatsIsolated ==
  \A c \in Invocations :
    chats[c].pc # "absent" =>
      LET s == chats[c] IN
      /\ s.messages = <<RequestMessage(c)>>
      /\ SubSeq(s.currentMessages, 1, Len(s.messages)) = s.messages
      /\ Len(SelectSeq(s.currentMessages, LAMBDA m : m.role = "user")) = 1
      /\ Len(SelectSeq(s.currentMessages, LAMBDA m : m.role = "tool"))
           = Len(s.toolOutcomes)
      /\ s.modelCalls = s.iterationCount
      /\ \A t \in TextsOf(s) : Questions[Other(c)] \notin Range(t)

\* both invocations are in flight at once, each past its first turn with a
\* tool call of its own awaiting the server
C19_Witness ==
  /\ chats[1].pc = "awaitTool" /\ chats[2].pc = "awaitTool"
  /\ chats[1].currentMessages[1] = RequestMessage(1)
  /\ chats[2].currentMessages[1] = RequestMessage(2)
  /\ Len(chats[1].serverCalls) = 1 /\ Len(chats[2].serverCalls) = 1


(***************************************************************************)
(* Termination of the output stream (specification SpecLive).              *)
(***************************************************************************)
Closing(s) == s.strState = "closed" \/ s.closeRequested
Errored(s) == s.strState = "errored"
Terminated(s) == Closing(s) \/ Errored(s)

IsPrefix(a, b) == Len(a) <= Len(b) /\ SubSeq(b, 1, Len(a)) = a

\* the message m with the annotation of its tool calls added to its content
Annotated(m) == [m EXCEPT !.content = @ \o ToolCallInfo(m.tool_calls)]

\* C21 as stated: the conversation only grows at its end, and every message
\* in it is still as it was when it was appended.
C21_AppendOnlyNothingChanged ==
  /\ IsPrefix(c1.messages, c1.currentMessages) \/ c1.pc = "start"
  /\ c1.currentMessages = c1.appendedAs

\* C21: from one suspension point to the next the conversation only grows
\* at its end, and a message in it is as it was appended, except that the
\* message of a turn with tool calls has had the annotation of these calls
\* added to its content.
C21_AppendOnlyButAnnotation ==
  /\ [][IsPrefix(chats[1].currentMessages, chats'[1].currentMessages)]_vars
  /\ [](/\ Len(c1.currentMessages) = Len(c1.appendedAs)
        /\ \A i \in DOMAIN c1.currentMessages :
             \/ c1.currentMessages[i] = c1.appendedAs[i]
             \/ /\ c1.appendedAs[i].tool_calls # <<>>
                /\ c1.appendedAs[i].role \notin {"user", "tool"}
                /\ c1.currentMessages[i] = Annotated(c1.appendedAs[i]))

\* the message of the first turn was annotated after it was appended, and
\* a tool message was appended behind it
C21_Witness ==
  /\ FirstTurnPushed(c1)
  /\ FirstAssistant(c1) # c1.appendedAs[Len(c1.messages) + 1]
  /\ Len(c1.currentMessages) >= Len(c1.messages) + 2
  /\ c1.currentMessages[Len(c1.messages) + 2].role = "tool"

\* C22: whatever the loop does, the array the caller passed in holds the
\* messages it held when chat() was called.
C22_CallerMessagesUntouched ==
  /\ c1.messages = <<UserMessage>>
  /\ ~c1.aliased

\* the loop is over, after it has appended to its own conversation
C22_Witness ==
  /\ c1.pc \in {"done", "aborted"}
  /\ Len(c1.currentMessages) > Len(c1.messages)
  /\ c1.messages = <<UserMessage>>

\* C23: the iteration counter stays between 0 and 10 and equals the number
\* of model calls started; a step leaves it as it is or adds one to it, and
\* the step that adds one is the one that starts a model call.
C23_CounterBoundedMonotone ==
  /\ [](/\ c1.iterationCount \in 0..10
        /\ c1.modelCalls = c1.iterationCount)
  /\ [][\/ chats'[1].iterationCount = chats[1].iterationCount
         \/ /\ chats'[1].iterationCount = chats[1].iterationCount + 1
            /\ chats'[1].modelCalls = chats[1].modelCalls + 1
            /\ chats'[1].pc = "awaitModel"]_vars

\* the tenth model call has been answered and its response is streaming
C23_Witness ==
  /\ c1.iterationCount = 10
  /\ c1.modelCalls = 10
  /\ c1.pc = "stream"


(***************************************************************************)
(* Order of the output stream (specification Spec).                        *)
(***************************************************************************)
\* the positions of the arrivals of the given kind
ArrivalsOf(log, kind) == {i \in DOMAIN log : log[i].kind = kind}

Highest(S) == IF S = {} THEN 0 ELSE CHOOSE i \in S : \A k \in S : k <= i

\* the chunks a history of arrivals calls for: the text of each part as it
\* arrived, at the end of a turn the annotation of its tool calls (if it
\* has any), then for each tool call that settled, in call order, the
\* annotation of its result or of its failure
RECURSIVE ChunksFor(_, _, _)
ChunksFor(log, calls, j) ==
  IF log = <<>> THEN <<>>
  ELSE
    LET e == Head(log) IN
    IF e.kind = "text" THEN <<e.chunk>> \o ChunksFor(Tail(log), calls, j)
    ELSE IF e.kind = "end"
    THEN (IF e.calls = <<>> THEN <<>> ELSE <<ToolCallInfo(e.calls)>>)
           \o ChunksFor(Tail(log), e.calls, 1)
    ELSE IF e.kind = "ok"
    THEN <<ToolResultInfo(calls[j].name, e.result)>>
           \o ChunksFor(Tail(log), calls, j + 1)
    ELSE <<ToolErrorInfo(calls[j].name, e.errmsg)>>
           \o ChunksFor(Tail(log), calls, j + 1)

\* C24: the chunks enqueued so far are, in this order, those the arrivals
\* so far call for: every text as it arrived, the tool-call annotation
\* behind the text of its turn, one result or error annotation per settled
\* tool call in call order, and the chunks of a later iteration behind
\* those of an earlier one.
C24_StreamKeepsLoopOrder ==
  c1.enqueued = ChunksFor(c1.arrived, <<>>, 1)

\* the second iteration has streamed text behind the text, the tool-call
\* annotation and two tool annotations of the first
C24_Witness ==
  /\ c1.iterationCount = 2
  /\ Len(c1.arrived) >= 5
  /\ c1.arrived[1].kind = "text"
  /\ c1.arrived[Len(c1.arrived)].kind = "text"
  /\ \E i, j \in DOMAIN c1.arrived :
       i < j /\ c1.arrived[i].kind = "ok" /\ c1.arrived[j].kind = "err"
  /\ Len(c1.enqueued) = Len(c1.arrived)

\* the texts that arrived during the last turn that has ended
RECURSIVE Concat(_)
Concat(chunks) ==
  IF chunks = <<>> THEN <<>> ELSE Head(chunks) \o Concat(Tail(chunks))

LastTurnText(log) ==
  LET last == Highest(ArrivalsOf(log, "end"))
      prev == Highest({i \in ArrivalsOf(log, "end") : i < last})
      during == SelectSeq(SubSeq(log, prev + 1, last),
                          LAMBDA e : e.kind = "text")
  IN Concat([i \in DOMAIN during |-> during[i].chunk])

\* the last message of the conversation that is neither the user's nor a
\* tool's
LastAssistant(s) ==
  s.currentMessages[Highest({i \in DOMAIN s.currentMessages :
                               s.currentMessages[i].role \notin {"user", "tool"}})]

\* C25: while the model call of a further iteration is pending, the content
\* of the assistant message of the iteration before it is the text that
\* arrived during that iteration, in order, followed by the annotation of
\* its tool calls.
C25_AssistantContentIsTextThenAnnotation ==
  (c1.pc = "awaitModel" /\ c1.iterationCount >= 2) =>
    LastAssistant(c1).content =
      LastTurnText(c1.arrived) \o ToolCallInfo(LastAssistant(c1).tool_calls)

\* the second model call is pending after a turn of two texts and two calls
C25_Witness ==
  /\ c1.pc = "awaitModel" /\ c1.iterationCount = 2
  /\ Len(LastAssistant(c1).tool_calls) = 2
  /\ Cardinality(ArrivalsOf(c1.arrived, "text")) = 2
  /\ LastAssistant(c1).content # LastTurnText(c1.arrived)

\* C26: when the stream of a turn is over, the assistant message of the turn
\* holds as many tool calls as the parts of the turn announced.
C26_AnnouncedCallsAccumulated ==
  (c1.pc \notin {"start", "awaitModel", "stream"} /\ c1.abortCause = "none"
   /\ c1.iterationCount = 1 /\ FirstTurnPushed(c1))
    => Len(FirstAssistant(c1).tool_calls) = c1.announced

\* C27: every call sent to a server names a tool of the catalog and went to
\* the connection of the server the catalog entry names, which is the last
\* server that listed the name, and to no other.
C27_DispatchedToOwner ==
  \A j \in DOMAIN c1.serverCalls :
    LET call == c1.serverCalls[j] IN
    /\ call.name \in DOMAIN mcpToolMap
    /\ call.serverName = mcpToolMap[call.name].serverName
    /\ call.serverName = clients[LastOf(ListersOf(call.name))]
    /\ \E i \in DOMAIN clients : clients[i] = call.serverName

\* one chat sent a call to each of the two servers, each for its own tool
C27_Witness ==
  /\ \E j \in DOMAIN c1.serverCalls :
       c1.serverCalls[j].name = "t1" /\ c1.serverCalls[j].serverName = "s1"
  /\ \E j \in DOMAIN c1.serverCalls :
       c1.serverCalls[j].name = "t2" /\ c1.serverCalls[j].serverName = "s2"

Roles == {"user", "assistant", "tool"}

\* C28: every message of the conversation sent to the model backend has one
\* of the roles user, assistant, tool; the message appended after a model
\* turn has the role assistant and a tool result message the role tool.
C28_EveryMessageHasARole ==
  /\ c1.pc = "awaitModel" =>
       \A i \in DOMAIN c1.currentMessages : c1.currentMessages[i].role \in Roles
  /\ FirstTurnPushed(c1) => FirstAssistant(c1).role = "assistant"
  /\ \A i \in DOMAIN c1.currentMessages :
       c1.currentMessages[i].name # Undefined =>
         c1.currentMessages[i].role = "tool"

ListingFailed ==
  /\ init.pc = "failed"
  /\ init.error = <<"Failed to list MCP tools", "unreachable">>

\* C30: when the listing of one connected server fails, initialize() is
\* rejected, no server after the failing one is asked for its tools, and no
\* chat invocation works with the catalog the failed build left behind.
C30_ListingFailureIsFatal ==
  ListingFailed =>
    /\ Len(init.listCalls) = init.listed + 1
    /\ \A c \in DOMAIN chats : "failed" \notin chats[c].readAt

\* C31: once the model call, the response stream or the tool call an
\* invocation awaits has stopped answering, the invocation stays at that
\* await: its stream is never closed or errored, it enqueues nothing, and it
\* issues no further model call or tool call.
C31_UnansweredAwaitBlocksForever ==
  c1.hungAt # NoHang =>
    /\ c1.pc = c1.hungAt.pc
    /\ c1.pc \in {"awaitModel", "stream", "awaitTool"}
    /\ c1.strState = "readable" /\ ~c1.closeRequested
    /\ c1.abortCause = "none"
    /\ c1.consumer \notin {"done", "error"}
    /\ c1.modelCalls = c1.hungAt.modelCalls
    /\ Len(c1.serverCalls) = c1.hungAt.serverCalls
    /\ Len(c1.enqueued) = c1.hungAt.enqueued

\* a tool call stopped answering; the consumer has read all that was
\* enqueued before and waits on a stream that is still open
C31_Witness ==
  /\ c1.hungAt.pc = "awaitTool"
  /\ c1.pc = "awaitTool"
  /\ c1.strState = "readable"
  /\ c1.consumer = "pending"
  /\ c1.queue = <<>>
  /\ c1.observed = c1.enqueued /\ c1.enqueued # <<>>
====
